---- MODULE Spec2Model ----
(***************************************************************************)
(* A model of chicker.py (CFG, AmbiguityChecker) and of nfaToDfa.py        *)
(* (epsilon_closure, move, nfa_to_dfa).                                    *)
(*                                                                         *)
(* Python strings are sequences of one-character strings; a grammar symbol *)
(* is a Python string, so it is such a sequence too, and a production is a *)
(* sequence of symbols.  The recursion of _count_derivations and           *)
(* _count_prod_derivations is run on an explicit call stack, one frame per *)
(* Python call, so that re-entry, pruning and RecursionError are visible.  *)
(***************************************************************************)
EXTENDS Integers, Sequences, FiniteSets, TLC

VARIABLES rules, non_terminals, terminals,
          memo, stack, ret, pc, call, result, before,
          transitions, accepts, start_state, queue, dfa_states, dfa_transitions,
          dfa_accepts, nfaPc

cfgVars == <<rules, non_terminals, terminals>>
chkVars == <<memo, stack, ret, pc, call, result, before>>
nfaVars == <<transitions, accepts, start_state, queue, dfa_states, dfa_transitions,
             dfa_accepts, nfaPc>>
vars == <<rules, non_terminals, terminals, memo, stack, ret, pc, call, result, before,
          transitions, accepts, start_state, queue, dfa_states, dfa_transitions,
          dfa_accepts, nfaPc>>

(***************************************************************************)
(* Bounds of the model.  MaxRules: the productions add_rule may register.  *)
(* RecursionLimit: the depth of calls at which Python raises               *)
(* RecursionError (sys.getrecursionlimit(), 1000 unless changed); no run   *)
(* on a grammar without left recursion comes near it.  MaxEdges: the edges *)
(* of an NFA.  MaxWordLen: the length of the words run through the DFA.    *)
(***************************************************************************)
MaxRules == 3
RecursionLimit == 24
MaxEdges == 3
MaxWordLen == 3

(***************************************************************************)
(* Characters and str.isupper().                                           *)
(***************************************************************************)
UpperChars == {"S", "A"}
LowerChars == {"a", "b"}
\* "1" is a character without case

\* str.isupper(): at least one cased character, and no lowercase one.
IsUpper(symbol) ==
    /\ \E k \in 1..Len(symbol) : symbol[k] \in UpperChars
    /\ \A k \in 1..Len(symbol) : symbol[k] \notin LowerChars

S == <<"S">>
A == <<"A">>
a == <<"a">>
b == <<"b">>
ab == <<"a", "b">>
Sa == <<"S", "a">>
S1 == <<"S", "1">>
One == <<"1">>

(***************************************************************************)
(* class CFG                                                               *)
(***************************************************************************)
EmptyMap == [x \in {} |-> 0]

AppendRuleDeduplicated(r, non_terminal, symbols) ==
    IF non_terminal \in DOMAIN r
    THEN IF \E k \in 1..Len(r[non_terminal]) : r[non_terminal][k] = symbols
         THEN r
         ELSE [r EXCEPT ![non_terminal] = Append(@, symbols)]
    ELSE [x \in DOMAIN r \cup {non_terminal} |->
             IF x = non_terminal THEN <<symbols>> ELSE r[x]]

\* self.rules[non_terminal].append(symbols) on a defaultdict(list)
AppendRule(r, non_terminal, symbols) ==
    IF non_terminal \in DOMAIN r
    THEN [r EXCEPT ![non_terminal] = Append(@, symbols)]
    ELSE [x \in DOMAIN r \cup {non_terminal} |->
             IF x = non_terminal THEN <<symbols>> ELSE r[x]]

SymbolsOf(symbols) == {symbols[k] : k \in 1..Len(symbols)}

NonTerminalsAfterAnySymbol(nts, non_terminal, symbols) ==
    nts \cup {non_terminal} \cup SymbolsOf(symbols)

\* the non-terminals after add_rule: the left-hand side, and every uppercase symbol
NonTerminalsAfter(nts, non_terminal, symbols) ==
    nts \cup {non_terminal} \cup {x \in SymbolsOf(symbols) : IsUpper(x)}

\* the terminals after add_rule: every symbol that is not uppercase
TerminalsAfter(ts, non_terminal, symbols) ==
    ts \cup {x \in SymbolsOf(symbols) : ~IsUpper(x)}

\* self.rules.get(non_terminal, [])
get_rules(non_terminal) ==
    IF non_terminal \in DOMAIN rules THEN rules[non_terminal] ELSE <<>>

RulesAfterIndexing(r, non_terminal) ==
    IF non_terminal \in DOMAIN r THEN r
    ELSE [x \in DOMAIN r \cup {non_terminal} |-> IF x = non_terminal THEN <<>> ELSE r[x]]

\* what a lookup leaves of the mapping: dict.get never inserts a key
RulesAfterGet(r, non_terminal) == r

NumRules == LET RECURSIVE Sum(_)
                Sum(D) == IF D = {} THEN 0
                          ELSE LET x == CHOOSE x \in D : TRUE
                               IN Len(rules[x]) + Sum(D \ {x})
            IN Sum(DOMAIN rules)

(***************************************************************************)
(* class AmbiguityChecker                                                  *)
(***************************************************************************)
NoRet == -1
NoCall == [start_symbol |-> <<>>, string |-> <<>>, valid |-> FALSE]
NoResult == <<FALSE, -1>>
NoBefore == [set |-> FALSE]

IsTerminalInverted(symbol) == symbol \in non_terminals

\* symbol not in self.cfg.non_terminals
IsTerminal(symbol) == symbol \notin non_terminals

\* memo keys: (symbol, string) has a str first, (tuple(production), string) a tuple
SymKey(symbol, string) == <<"sym", symbol, string>>
ProdKey(production, string) == <<"prod", production, string>>

Memoize(m, key, count) ==
    [k \in DOMAIN m \cup {key} |-> IF k = key THEN count ELSE m[k]]

MemoKept(m) == m

\* self.memo.clear()
ClearedMemo(m) == EmptyMap

\* string[:i] and string[i:]
Prefix(string, i) == SubSeq(string, 1, i)

SuffixWhole(string, i) == string

Suffix(string, i) == SubSeq(string, i + 1, Len(string))

\* 1 if string == symbol else 0
TerminalCount(symbol, string) == IF string = symbol THEN 1 ELSE 0

\* 1 if not string else 0
EmptyProdCount(string) == IF string = <<>> THEN 1 ELSE 0

RecurseAlways(first_count) == first_count >= 0

\* if first_count > 0
RecurseIntoRest(first_count) == first_count > 0

AccumulateSum(count, first_count, rest_count) == count + first_count + rest_count

\* count += first_count * rest_count
Accumulate(count, first_count, rest_count) == count + first_count * rest_count

SymFrame(symbol, string) ==
    [fn |-> "sym", arg |-> symbol, string |-> string,
     at |-> "entry", i |-> 0, count |-> 0, first_count |-> 0]

ProdFrame(production, string) ==
    [fn |-> "prod", arg |-> production, string |-> string,
     at |-> "entry", i |-> 0, count |-> 0, first_count |-> 0]

FrameKey(f) == <<f.fn, f.arg, f.string>>

Top == stack[Len(stack)]
Below == SubSeq(stack, 1, Len(stack) - 1)

\* return v from the top frame, leaving the memo as m
Return(v, m) ==
    /\ stack' = Below
    /\ ret' = v
    /\ memo' = m
    /\ pc' = pc

\* the top frame, now f, calls callee; past the recursion limit Python raises
\* RecursionError, which nothing catches: it unwinds every frame of the check
Invoke(f, callee) ==
    /\ memo' = memo
    /\ ret' = NoRet
    /\ IF Len(stack) + 1 > RecursionLimit
       THEN /\ stack' = <<>>
            /\ pc' = "RecursionError"
       ELSE /\ stack' = Below \o <<f, callee>>
            /\ pc' = pc

\* for production in self.cfg.get_rules(symbol): ...; self.memo[key] = count
SymLoop(f) ==
    IF f.i <= Len(get_rules(f.arg))
    THEN Invoke([f EXCEPT !.at = "prod"], ProdFrame(get_rules(f.arg)[f.i], f.string))
    ELSE Return(f.count, Memoize(memo, SymKey(f.arg, f.string), f.count))

\* for i in range(len(string) + 1): ...; self.memo[key] = count
ProdLoop(f) ==
    IF f.i <= Len(f.string)
    THEN Invoke([f EXCEPT !.at = "first"], SymFrame(Head(f.arg), Prefix(f.string, f.i)))
    ELSE Return(f.count, Memoize(memo, ProdKey(f.arg, f.string), f.count))

Running == pc = "running" /\ stack # <<>>

\* _count_derivations, from its entry to its first call or its return
CountDerivations ==
    /\ Running /\ Top.fn = "sym" /\ Top.at = "entry"
    /\ IF SymKey(Top.arg, Top.string) \in DOMAIN memo
       THEN Return(memo[SymKey(Top.arg, Top.string)], memo) /\ rules' = rules
       ELSE IF IsTerminal(Top.arg)
       THEN /\ Return(TerminalCount(Top.arg, Top.string),
                      Memoize(memo, SymKey(Top.arg, Top.string),
                              TerminalCount(Top.arg, Top.string)))
            /\ rules' = rules
       ELSE /\ SymLoop([Top EXCEPT !.i = 1, !.count = 0])
            /\ rules' = RulesAfterGet(rules, Top.arg)
    /\ UNCHANGED <<non_terminals, terminals, call, result, before, nfaVars>>

\* _count_derivations, from the return of _count_prod_derivations(production, string)
CountDerivationsResume ==
    /\ Running /\ Top.fn = "sym" /\ Top.at = "prod" /\ ret # NoRet
    /\ SymLoop([Top EXCEPT !.i = @ + 1, !.count = @ + ret])
    /\ UNCHANGED <<cfgVars, call, result, before, nfaVars>>

\* _count_prod_derivations, from its entry to its first call or its return
CountProdDerivations ==
    /\ Running /\ Top.fn = "prod" /\ Top.at = "entry"
    /\ IF ProdKey(Top.arg, Top.string) \in DOMAIN memo
       THEN Return(memo[ProdKey(Top.arg, Top.string)], memo)
       ELSE IF Top.arg = <<>>
       THEN Return(EmptyProdCount(Top.string),
                   Memoize(memo, ProdKey(Top.arg, Top.string), EmptyProdCount(Top.string)))
       ELSE ProdLoop([Top EXCEPT !.i = 0, !.count = 0])
    /\ UNCHANGED <<cfgVars, call, result, before, nfaVars>>

\* _count_prod_derivations, from the return of _count_derivations(first, prefix)
CountProdAfterFirst ==
    /\ Running /\ Top.fn = "prod" /\ Top.at = "first" /\ ret # NoRet
    /\ IF RecurseIntoRest(ret)
       THEN Invoke([Top EXCEPT !.at = "rest", !.first_count = ret],
                   ProdFrame(Tail(Top.arg), Suffix(Top.string, Top.i)))
       ELSE ProdLoop([Top EXCEPT !.i = @ + 1, !.first_count = ret])
    /\ UNCHANGED <<cfgVars, call, result, before, nfaVars>>

\* _count_prod_derivations, from the return of _count_prod_derivations(rest, suffix)
CountProdAfterRest ==
    /\ Running /\ Top.fn = "prod" /\ Top.at = "rest" /\ ret # NoRet
    /\ ProdLoop([Top EXCEPT !.i = @ + 1,
                            !.count = Accumulate(@, Top.first_count, ret)])
    /\ UNCHANGED <<cfgVars, call, result, before, nfaVars>>

\* the value check returns for a start symbol that is no non-terminal
InvalidStartResult == <<FALSE, 0>>

\* return count > 1, count
CheckResult(count) == <<count > 1, count>>

\* check(start_symbol, string), up to the call of _count_derivations; before
\* is kept only for a check that repeats the one it was taken from
Check(start_symbol, string) ==
    /\ pc \in {"idle", "returned"}
    /\ memo' = ClearedMemo(memo)
    /\ ret' = NoRet
    /\ call' = [start_symbol |-> start_symbol, string |-> string,
                valid |-> start_symbol \in non_terminals]
    /\ before' = IF before.set /\ before.start_symbol = start_symbol
                                /\ before.string = string
                 THEN before ELSE NoBefore
    /\ IF start_symbol \notin non_terminals
       THEN /\ stack' = <<>>
            /\ result' = InvalidStartResult
            /\ pc' = "returned"
       ELSE /\ stack' = <<SymFrame(start_symbol, string)>>
            /\ result' = NoResult
            /\ pc' = "running"
    /\ UNCHANGED <<cfgVars, nfaVars>>

\* check, from the return of _count_derivations(start_symbol, string)
CheckReturn ==
    /\ pc = "running" /\ stack = <<>> /\ ret # NoRet
    /\ result' = CheckResult(ret)
    /\ pc' = "returned"
    /\ ret' = NoRet
    /\ UNCHANGED <<cfgVars, memo, stack, call, before, nfaVars>>

\* add_rule(non_terminal, symbols), called between two checks.  before is a
\* history variable: when the rule repeats a production of the start symbol of
\* the check that has just returned, it keeps that check's arguments, its
\* count and the count the production contributed (the memo still holds it).
AddRule(non_terminal, symbols) ==
    /\ pc \in {"idle", "returned"}
    /\ NumRules < MaxRules
    /\ rules' = AppendRule(rules, non_terminal, symbols)
    /\ non_terminals' = NonTerminalsAfter(non_terminals, non_terminal, symbols)
    /\ terminals' = TerminalsAfter(terminals, non_terminal, symbols)
    /\ pc' = "idle"
    /\ before' =
         IF /\ pc = "returned" /\ call.valid /\ call.start_symbol = non_terminal
            /\ \E k \in 1..Len(get_rules(non_terminal)) : get_rules(non_terminal)[k] = symbols
         THEN [set |-> TRUE, start_symbol |-> call.start_symbol, string |-> call.string,
               production |-> symbols, count |-> result[2],
               contribution |-> memo[ProdKey(symbols, call.string)]]
         ELSE NoBefore
    /\ UNCHANGED <<memo, stack, ret, call, result, nfaVars>>

(***************************************************************************)
(* The inputs.                                                             *)
(***************************************************************************)
RulePool ==
    { <<S, <<S, S>>>>, <<S, <<a>>>>, <<S, <<a, S>>>>, <<S, <<A, S>>>>,
      <<S, <<a, S, b>>>>, <<A, <<>>>>, <<A, <<ab>>>> }

StartPool == {S, A, a}

Strings == {<<>>, a, b, <<"a", "a">>, ab, <<"a", "a", "a">>, <<"a", "a", "b">>, <<"a", "b", "a">>}

InitCFG ==
    /\ rules = EmptyMap
    /\ non_terminals = {}
    /\ terminals = {}
    /\ memo = EmptyMap
    /\ stack = <<>>
    /\ ret = NoRet
    /\ pc = "idle"
    /\ call = NoCall
    /\ result = NoResult
    /\ before = NoBefore

\* nfa_to_dfa has not been called
NfaOff ==
    /\ transitions = {}
    /\ accepts = {}
    /\ start_state = {}
    /\ queue = <<>>
    /\ dfa_states = {}
    /\ dfa_transitions = EmptyMap
    /\ dfa_accepts = {}
    /\ nfaPc = "off"

Init == InitCFG /\ NfaOff

AddPoolRule == \E r \in RulePool : AddRule(r[1], r[2])

CheckAny == \E start_symbol \in StartPool, string \in Strings : Check(start_symbol, string)

Next ==
    \/ AddPoolRule
    \/ CheckAny
    \/ CountDerivations
    \/ CountDerivationsResume
    \/ CountProdDerivations
    \/ CountProdAfterFirst
    \/ CountProdAfterRest
    \/ CheckReturn

Spec == Init /\ [][Next]_vars

CheckStep ==
    \/ CountDerivations
    \/ CountDerivationsResume
    \/ CountProdDerivations
    \/ CountProdAfterFirst
    \/ CountProdAfterRest
    \/ CheckReturn

\* a call of check runs to its end on its own: the program is synchronous
FairSpec == Spec /\ WF_vars(CheckStep)

(***************************************************************************)
(* add_rule called directly, with any left-hand side and any tokens.       *)
(***************************************************************************)
LhsTokens == {S, a, Sa}
CFGProductions == {<<>>, <<S>>, <<a>>, <<Sa>>, <<S1>>, <<One>>, <<S, a>>, <<a, a>>}

AddAnyRule == \E non_terminal \in LhsTokens, symbols \in CFGProductions :
                  AddRule(non_terminal, symbols)

NextCFG == AddAnyRule

SpecCFG == Init /\ [][NextCFG]_vars

(***************************************************************************)
(* The grammar as a relation between symbols.                              *)
(***************************************************************************)
AllProductions == UNION {SymbolsOf(rules[x]) : x \in DOMAIN rules}

\* the symbols that derive the empty string: the empty terminal, and a
\* non-terminal one of whose productions consists of such symbols
NullableSymbols ==
    LET RECURSIVE Fix(_)
        Fix(N) ==
            LET N2 == N \cup {x \in DOMAIN rules :
                               \E k \in 1..Len(rules[x]) :
                                   \A j \in 1..Len(rules[x][k]) : rules[x][k][j] \in N}
            IN IF N2 = N THEN N ELSE Fix(N2)
    IN Fix({<<>>} \ non_terminals)

\* y stands in x's production after symbols that all derive the empty string
LeftCorner(x, y) ==
    /\ x \in DOMAIN rules
    /\ \E k \in 1..Len(rules[x]) : \E j \in 1..Len(rules[x][k]) :
          /\ rules[x][k][j] = y
          /\ \A h \in 1..(j - 1) : rules[x][k][h] \in NullableSymbols

\* y stands anywhere in a production of x
Occurs(x, y) ==
    /\ x \in DOMAIN rules
    /\ \E k \in 1..Len(rules[x]) : y \in SymbolsOf(rules[x][k])

\* the non-terminals reached from x by one or more pairs of the relation E
ReachedBy(E, x) ==
    LET RECURSIVE Fix(_)
        Fix(R) ==
            LET R2 == R \cup {y \in non_terminals : \E z \in R : <<z, y>> \in E}
            IN IF R2 = R THEN R ELSE Fix(R2)
    IN Fix({y \in non_terminals : <<x, y>> \in E})

LeftCorners == {e \in non_terminals \X non_terminals : LeftCorner(e[1], e[2])}

Occurrences == {e \in non_terminals \X non_terminals : Occurs(e[1], e[2])}

\* some non-terminal reaches itself in leftmost position
LeftRecursive == \E x \in non_terminals : x \in ReachedBy(LeftCorners, x)

\* x reaches itself through its productions
Recursive(x) == x \in ReachedBy(Occurrences, x)

(***************************************************************************)
(* Counting by enumeration, with no memo: the sum over the productions,    *)
(* the sum over the split points of the product of the two counts.         *)
(***************************************************************************)
RECURSIVE BruteSym(_, _), BruteProd(_, _), BruteSumProds(_, _, _), BruteSumSplits(_, _, _)

BruteSym(symbol, string) ==
    IF symbol \notin non_terminals
    THEN IF string = symbol THEN 1 ELSE 0
    ELSE BruteSumProds(symbol, string, 1)

BruteSumProds(symbol, string, k) ==
    IF k > Len(get_rules(symbol)) THEN 0
    ELSE BruteProd(get_rules(symbol)[k], string) + BruteSumProds(symbol, string, k + 1)

BruteProd(production, string) ==
    IF production = <<>>
    THEN IF string = <<>> THEN 1 ELSE 0
    ELSE BruteSumSplits(production, string, 0)

BruteSumSplits(production, string, i) ==
    IF i > Len(string) THEN 0
    ELSE LET first == BruteSym(Head(production), SubSeq(string, 1, i))
         IN (IF first = 0 THEN 0
             ELSE first * BruteProd(Tail(production), SubSeq(string, i + 1, Len(string))))
            + BruteSumSplits(production, string, i + 1)

BruteKey(key) ==
    IF key[1] = "sym" THEN BruteSym(key[2], key[3]) ELSE BruteProd(key[2], key[3])

\* what a checker with an empty memo returns
FreshCheck(start_symbol, string) ==
    IF start_symbol \notin non_terminals THEN <<FALSE, 0>>
    ELSE <<BruteSym(start_symbol, string) > 1, BruteSym(start_symbol, string)>>

NoReentry ==
    \A h \in 1..Len(stack) : \A k \in 1..Len(stack) :
        h # k => FrameKey(stack[h]) # FrameKey(stack[k])

aaa == <<"a", "a", "a">>

(***************************************************************************)
(* nfaToDfa.py.  transitions is the set of edges <<state, symbol, next>>:  *)
(* transitions.get((state, symbol), set()) is the set of the edges' ends.  *)
(***************************************************************************)
NfaStates == {"q0", "q1", "q2"}
Alphabet == {"a", "b"}
Eps == ""
Start == "q0"
AcceptSets == {{"q2"}, {"q0", "q1"}}

\* transitions.get((state, symbol), set())
TransitionsGet(trans, state, symbol) ==
    {e[3] : e \in {d \in trans : d[1] = state /\ d[2] = symbol}}

EpsilonClosureOneStep(states, trans) ==
    states \cup UNION {TransitionsGet(trans, q, Eps) : q \in states}

\* epsilon_closure(states, transitions): the work list is emptied one state at
\* a time, every state not yet in the closure joining both
epsilon_closure(states, trans) ==
    LET RECURSIVE Work(_, _)
        Work(closure, todo) ==
            IF todo = {} THEN closure
            ELSE LET state == CHOOSE q \in todo : TRUE
                     new == TransitionsGet(trans, state, Eps) \ closure
                 IN Work(closure \cup new, (todo \ {state}) \cup new)
    IN Work(states, states)

\* move(states, symbol, transitions)
move(states, symbol, trans) ==
    UNION {TransitionsGet(trans, q, symbol) : q \in states}

\* one turn of `for symbol in alphabet` for the state current
ForSymbol(st, current, symbol) ==
    LET next_dfa == epsilon_closure(move(current, symbol, transitions), transitions)
        fresh == next_dfa \notin st.dfa_states /\ next_dfa # {}
    IN [dfa_transitions |-> Memoize(st.dfa_transitions, <<current, symbol>>, next_dfa),
        dfa_states |-> IF fresh THEN st.dfa_states \cup {next_dfa} ELSE st.dfa_states,
        queue |-> IF fresh THEN Append(st.queue, next_dfa) ELSE st.queue]

RECURSIVE ForSymbols(_, _, _)
ForSymbols(st, current, order) ==
    IF order = <<>> THEN st
    ELSE ForSymbols(ForSymbol(st, current, Head(order)), current, Tail(order))

\* the orders in which a set of two symbols is iterated
AlphabetOrders == {<<"a", "b">>, <<"b", "a">>}

\* nfa_to_dfa, up to the loop
NfaToDfaStart ==
    /\ nfaPc = "start"
    /\ start_state' = epsilon_closure({Start}, transitions)
    /\ queue' = <<epsilon_closure({Start}, transitions)>>
    /\ dfa_states' = {epsilon_closure({Start}, transitions)}
    /\ nfaPc' = "loop"
    /\ UNCHANGED <<cfgVars, chkVars, transitions, accepts, dfa_transitions, dfa_accepts>>

\* one turn of `while queue`
NfaToDfaLoop ==
    /\ nfaPc = "loop" /\ queue # <<>>
    /\ \E order \in AlphabetOrders :
          LET st == ForSymbols([dfa_transitions |-> dfa_transitions,
                                dfa_states |-> dfa_states,
                                queue |-> Tail(queue)], Head(queue), order)
          IN /\ dfa_transitions' = st.dfa_transitions
             /\ dfa_states' = st.dfa_states
             /\ queue' = st.queue
    /\ UNCHANGED <<cfgVars, chkVars, transitions, accepts, start_state, dfa_accepts, nfaPc>>

\* nfa_to_dfa, after the loop
NfaToDfaReturn ==
    /\ nfaPc = "loop" /\ queue = <<>>
    /\ dfa_accepts' = {state \in dfa_states : state \cap accepts # {}}
    /\ nfaPc' = "done"
    /\ UNCHANGED <<cfgVars, chkVars, transitions, accepts, start_state, queue,
                   dfa_states, dfa_transitions>>

AllEdges == NfaStates \X (Alphabet \cup {Eps}) \X NfaStates

RECURSIVE EdgeSets(_)
EdgeSets(n) ==
    IF n = 0 THEN {{}}
    ELSE EdgeSets(n - 1) \cup {T \cup {e} : T \in EdgeSets(n - 1), e \in AllEdges}

InitNFA ==
    /\ InitCFG
    /\ transitions \in EdgeSets(MaxEdges)
    /\ accepts \in AcceptSets
    /\ start_state = {}
    /\ queue = <<>>
    /\ dfa_states = {}
    /\ dfa_transitions = EmptyMap
    /\ dfa_accepts = {}
    /\ nfaPc = "start"

NextNFA ==
    \/ NfaToDfaStart
    \/ NfaToDfaLoop
    \/ NfaToDfaReturn

SpecNFA == InitNFA /\ [][NextNFA]_vars

RECURSIVE WordsUpTo(_)
WordsUpTo(n) ==
    IF n = 0 THEN {<<>>}
    ELSE WordsUpTo(n - 1) \cup {Append(w, c) : w \in WordsUpTo(n - 1), c \in Alphabet}

\* the NFA accepts w: some path from Start reads w and ends in accepts.  A
\* configuration <<q, n>> is a state with the number of symbols read.
NfaAccepts(w) ==
    LET Follows(c, e) ==
            /\ c[1] = e[1]
            /\ IF e[2] = Eps THEN TRUE ELSE c[2] < Len(w) /\ e[2] = w[c[2] + 1]
        After(c, e) == <<e[3], IF e[2] = Eps THEN c[2] ELSE c[2] + 1>>
        RECURSIVE Fix(_)
        Fix(C) ==
            LET C2 == C \cup {After(x[1], x[2]) :
                                x \in {y \in C \X transitions : Follows(y[1], y[2])}}
            IN IF C2 = C THEN C ELSE Fix(C2)
    IN \E q \in accepts : <<q, Len(w)>> \in Fix({<<Start, 0>>})

\* following dfa_transitions from state along w ends in dfa_accepts; a state
\* without the transition, as the empty subset is, rejects
RECURSIVE DfaAccepts(_, _)
DfaAccepts(state, w) ==
    IF w = <<>> THEN state \in dfa_accepts
    ELSE IF <<state, Head(w)>> \notin DOMAIN dfa_transitions THEN FALSE
    ELSE DfaAccepts(dfa_transitions[<<state, Head(w)>>], Tail(w))

(***************************************************************************)
(* The claims.                                                             *)
(***************************************************************************)

\* C1: on a grammar without left recursion every count the memoized
\* _count_derivations and _count_prod_derivations have returned is a
\* non-negative integer equal to the count by enumeration without a memo, and
\* so is the count check returns.
C1_MemoizedEqualsBruteForce ==
    (pc = "returned" /\ ~LeftRecursive) =>
        /\ \A key \in DOMAIN memo : memo[key] >= 0 /\ memo[key] = BruteKey(key)
        /\ call.valid =>
              /\ result[2] >= 0
              /\ result[2] = BruteSym(call.start_symbol, call.string)

C1_Witness ==
    /\ ~LeftRecursive /\ pc = "returned" /\ call.valid
    /\ result[2] > 1 /\ Len(call.string) = 3
    /\ Recursive(call.start_symbol)

\* C2: the value check returns for a start symbol that is no non-terminal
\* differs from the value it returns for a valid start symbol whose count is 0.
C2_InvalidStartDistinct ==
    (pc = "returned" /\ call.valid /\ result[2] = 0) => result # InvalidStartResult

\* C3: the recursion of a check starts from an empty memo, whatever was
\* checked and added before, and check returns what a checker with an empty
\* memo returns for the same start symbol and string on the grammar of that
\* moment.
C3_ChecksAreFresh ==
    /\ (pc = "running" /\ Len(stack) = 1 /\ stack[1].at = "entry") => memo = EmptyMap
    /\ pc = "returned" => result = FreshCheck(call.start_symbol, call.string)

C3_Witness ==
    /\ pc = "returned" /\ call.valid /\ result[2] > 0
    /\ NumRules = 3
    /\ \E x \in DOMAIN rules : \E k \in 1..Len(rules[x]) :
          ProdKey(rules[x][k], call.string) \notin DOMAIN memo

\* every symbol of a stored production is in exactly one of non_terminals and
\* terminals, and every left-hand side is in non_terminals
ExactlyOneClass ==
    /\ \A p \in AllProductions : \A x \in SymbolsOf(p) :
          (x \in non_terminals) # (x \in terminals)
    /\ \A x \in DOMAIN rules : x \in non_terminals

\* C4 as stated: ExactlyOneClass after add_rule calls with any left-hand side.
C4_ExactlyOneClassAnyLhs == ExactlyOneClass

\* C4 amended: after add_rule calls whose left-hand sides are all uppercase
\* (str.isupper()), every symbol of a stored production is in exactly one of
\* non_terminals and terminals, and every left-hand side is in non_terminals.
C4_ExactlyOneClassUpperLhs ==
    (\A x \in DOMAIN rules : IsUpper(x)) => ExactlyOneClass

C4_Witness ==
    /\ \A x \in DOMAIN rules : IsUpper(x)
    /\ NumRules = 3
    /\ \E p \in AllProductions : S \in SymbolsOf(p) /\ a \in SymbolsOf(p)
    /\ <<S1>> \in AllProductions /\ terminals # {} /\ non_terminals # {}

\* the grammar S -> S S | a, checked for "aaa" from S
IsSSa ==
    /\ DOMAIN rules = {S}
    /\ Len(rules[S]) = 2
    /\ SymbolsOf(rules[S]) = {<<S, S>>, <<a>>}
    /\ pc # "idle"
    /\ call.start_symbol = S /\ call.string = aaa

\* C5 as stated: check("S", "aaa") on S -> S S | a returns the count 2 and
\* reports ambiguity.
C5_CountIsTwo ==
    (IsSSa /\ pc # "running") => (pc = "returned" /\ result = <<TRUE, 2>>)

\* C5 amended: check("S", "aaa") on S -> S S | a returns no count: the
\* recursion re-enters a key that is still being computed and the call ends in
\* RecursionError.
C5_LeftRecursionNeverReturns ==
    IsSSa => /\ pc # "returned"
             /\ Len(stack) >= 6 => ~NoReentry

C5_Witness == IsSSa /\ pc = "RecursionError"

\* the second check of the same start symbol and string, right after the
\* production before.production was added to the start symbol a second time
AfterDuplicate ==
    /\ pc = "returned" /\ before.set /\ before.contribution > 0
    /\ call.start_symbol = before.start_symbol /\ call.string = before.string

\* C6 as stated: the count after the duplicate exceeds the count before by the
\* count one copy of the production contributes (before or after the addition),
\* also when the non-terminal is recursive.
C6_DuplicateAddsOneCopy ==
    AfterDuplicate =>
        result[2] - before.count \in
            {before.contribution, memo[ProdKey(before.production, call.string)]}

\* C6 amended: when the non-terminal does not reach itself through its
\* productions, the count after the duplicate exceeds the count before by
\* exactly the count one copy of the production contributes; the duplicate is
\* kept as a list entry of its own.
C6_DuplicateAddsOneCopyNonRecursive ==
    (AfterDuplicate /\ ~Recursive(call.start_symbol)) =>
        /\ result[2] = before.count + before.contribution
        /\ memo[ProdKey(before.production, call.string)] = before.contribution
        /\ Cardinality({k \in 1..Len(rules[call.start_symbol]) :
                           rules[call.start_symbol][k] = before.production}) >= 2

C6_Witness ==
    /\ AfterDuplicate /\ ~Recursive(call.start_symbol)
    /\ result[2] > before.count /\ NumRules = 3

\* C7: no step of check changes the rules mapping (its keys included), the
\* non_terminals or the terminals.
C7_CheckLeavesGrammar ==
    [][pc' # "idle" => /\ rules' = rules
                       /\ non_terminals' = non_terminals
                       /\ terminals' = terminals]_vars

\* a check has looked up the rules of a non-terminal with no production
C7_Witness ==
    /\ pc = "returned"
    /\ \E key \in DOMAIN memo :
          /\ key[1] = "sym"
          /\ key[2] \in non_terminals \ DOMAIN rules

\* C8: on a grammar in which no non-terminal reaches itself in leftmost
\* position, no key is entered while it is still being computed, the
\* recursion limit is never met, and every check that has started returns.
C8_Terminates ==
    /\ [](~LeftRecursive => (NoReentry /\ pc # "RecursionError"))
    /\ (pc = "running" /\ ~LeftRecursive) ~> (pc = "returned")

C8_Witness ==
    /\ pc = "returned" /\ ~LeftRecursive /\ call.valid
    /\ Recursive(call.start_symbol) /\ Len(call.string) = 3 /\ result[2] > 0

\* the top frame is at a split point whose first symbol has the count 0
ZeroSplit == Running /\ Top.fn = "prod" /\ Top.at = "first" /\ ret = 0

\* C9: a frame of _count_prod_derivations(rest, suffix) stands only on a
\* frame whose first_count is greater than 0, and a split point whose first
\* count is 0 neither calls _count_prod_derivations nor adds a memo entry for
\* (rest, suffix).
C9_Pruning ==
    /\ [](\A k \in 1..(Len(stack) - 1) :
            (stack[k].fn = "prod" /\ stack[k + 1].fn = "prod") =>
                (stack[k].at = "rest" /\ stack[k].first_count > 0))
    /\ [][ZeroSplit =>
            /\ (Len(stack') > Len(stack) => stack'[Len(stack')].fn = "sym")
            /\ (ProdKey(Tail(Top.arg), Suffix(Top.string, Top.i)) \in DOMAIN memo'
                  => ProdKey(Tail(Top.arg), Suffix(Top.string, Top.i)) \in DOMAIN memo)]_vars

C9_Witness ==
    /\ ZeroSplit /\ Len(Top.arg) = 2
    /\ ProdKey(Tail(Top.arg), Suffix(Top.string, Top.i)) \notin DOMAIN memo

\* C10: the DFA nfa_to_dfa returns accepts a word exactly when the NFA does;
\* the empty subset is no member of dfa_states and has no transition.
C10_DfaEquivalent ==
    nfaPc = "done" =>
        /\ \A w \in WordsUpTo(MaxWordLen) : DfaAccepts(start_state, w) <=> NfaAccepts(w)
        /\ {} \notin dfa_states
        /\ \A key \in DOMAIN dfa_transitions : key[1] # {}

\* a DFA with the empty subset as a target, three states, an epsilon move
\* that matters, and a word of three symbols that it accepts
C10_Witness ==
    /\ nfaPc = "done"
    /\ \E key \in DOMAIN dfa_transitions : dfa_transitions[key] = {}
    /\ Cardinality(dfa_states) >= 3
    /\ \E e \in transitions : e[2] = Eps /\ e[1] # e[3]
    /\ \E w \in WordsUpTo(MaxWordLen) : Len(w) = 3 /\ DfaAccepts(start_state, w)

====
